---------------------------- MODULE Spec2Model ----------------------------
(***************************************************************************)
(* Model of the query-safety gateway of the dashboard:                     *)
(*   - DatabaseManager (src/database.py): configuration flag, lazily       *)
(*     created engine, execute_query with its forbidden-keyword scan;      *)
(*   - SQLAgent (src/langchain_agent.py): SQL extraction from the          *)
(*     language-model response, _validate_query_safety, the request         *)
(*     handler execute_query_with_context, conversation history and the    *)
(*     LangChain window memory.                                            *)
(* Texts are TLA+ strings handled character by character, so that          *)
(* upper-casing, trimming, prefix tests and the regular expressions        *)
(* \bKEYWORD\b are computed the way the Python code computes them.         *)
(***************************************************************************)
EXTENDS Naturals, Sequences, FiniteSets, TLC

(***************************************************************************)
(* Python string primitives                                                *)
(***************************************************************************)

\* s[i-1] in Python: the i-th character, as a one-character string
Char(s, i) == SubSeq(s, i, i)

LowerLetters == "abcdefghijklmnopqrstuvwxyz"
UpperLetters == "ABCDEFGHIJKLMNOPQRSTUVWXYZ"
Digits == "0123456789"

CharsOf(s) == {Char(s, i) : i \in 1..Len(s)}

LowerSet == CharsOf(LowerLetters)

ToUpperMap ==
  [c \in LowerSet |->
     Char(UpperLetters, CHOOSE i \in 1..Len(LowerLetters) : Char(LowerLetters, i) = c)]

UpperChar(c) == IF c \in LowerSet THEN ToUpperMap[c] ELSE c

RECURSIVE UpperRange(_, _, _)
UpperRange(s, i, j) ==
  IF i > j THEN ""
  ELSE IF i = j THEN UpperChar(Char(s, i))
  ELSE LET m == (i + j) \div 2
       IN  UpperRange(s, i, m) \o UpperRange(s, m + 1, j)

\* str.upper()
Upper(s) == UpperRange(s, 1, Len(s))

\* characters removed by str.strip()
Whitespace == {" ", "\n", "\t", "\r"}

\* str.strip()
Strip(s) ==
  LET keep == {i \in 1..Len(s) : Char(s, i) \notin Whitespace}
  IN  IF keep = {} THEN ""
      ELSE LET first == CHOOSE i \in keep : \A j \in keep : i <= j
               last  == CHOOSE i \in keep : \A j \in keep : j <= i
           IN  SubSeq(s, first, last)

\* str.startswith(p)
StartsWith(s, p) == Len(s) >= Len(p) /\ SubSeq(s, 1, Len(p)) = p

\* sub in s
Contains(s, sub) ==
  \E i \in 1..(Len(s) + 1) : i + Len(sub) - 1 <= Len(s)
                             /\ SubSeq(s, i, i + Len(sub) - 1) = sub

\* the class \w of the re module on the texts used here
WordChars == CharsOf(LowerLetters) \cup CharsOf(UpperLetters) \cup CharsOf(Digits) \cup {"_"}

IsWordChar(c) == c \in WordChars

\* mutant of ReSearchWord: the pattern without its \b anchors
ReSearchNoBoundary(kw, s) == Contains(s, kw)

\* re.search(r'\bKW\b', s) for a keyword made of word characters
ReSearchWord(kw, s) ==
  \E i \in 1..Len(s) :
     /\ i + Len(kw) - 1 <= Len(s)
     /\ SubSeq(s, i, i + Len(kw) - 1) = kw
     /\ (i = 1 \/ ~IsWordChar(Char(s, i - 1)))
     /\ (i + Len(kw) - 1 = Len(s) \/ ~IsWordChar(Char(s, i + Len(kw))))

(***************************************************************************)
(* Exceptions and return values                                            *)
(***************************************************************************)

\* a call that returned normally
Ok == [raised |-> FALSE, msg |-> ""]

\* a call that raised an exception whose str() is m
Err(m) == [raised |-> TRUE, msg |-> m]

(***************************************************************************)
(* The forbidden-keyword scan shared by both validators                    *)
(***************************************************************************)

\* forbidden_patterns, in list order, without the \b anchors
ForbiddenKeywords ==
  << "INSERT", "UPDATE", "DELETE", "DROP", "CREATE", "ALTER",
     "TRUNCATE", "GRANT", "REVOKE", "EXEC", "EXECUTE" >>

\* mutant of FirstForbidden: the patterns tried from the end of the list
LastForbidden(query_upper) ==
  LET hits == {k \in 1..Len(ForbiddenKeywords) :
                 ReSearchWord(ForbiddenKeywords[k], query_upper)}
  IN  IF hits = {} THEN 0
      ELSE CHOOSE k \in hits : \A j \in hits : j <= k

\* index of the first pattern of the for-loop that matches, 0 when none does
FirstForbidden(query_upper) ==
  LET hits == {k \in 1..Len(ForbiddenKeywords) :
                 ReSearchWord(ForbiddenKeywords[k], query_upper)}
  IN  IF hits = {} THEN 0
      ELSE CHOOSE k \in hits : \A j \in hits : k <= j

\* allowed_starts
AllowedStarts == <<"SELECT", "WITH">>

\* SQLAgent._validate_query_safety
ValidateQuerySafety(query) ==
  LET query_upper == Strip(Upper(query))
      k == FirstForbidden(query_upper)
  IN  IF k # 0
      THEN Err("Query contains forbidden keyword: " \o ForbiddenKeywords[k])
      ELSE IF ~\E a \in 1..Len(AllowedStarts) : StartsWith(query_upper, AllowedStarts[a])
      THEN Err("Query must start with SELECT or WITH")
      ELSE Ok

(***************************************************************************)
(* SQLAgent._extract_sql_from_response                                     *)
(***************************************************************************)

\* positions of the line breaks of s
Breaks(s) == {i \in 1..Len(s) : Char(s, i) = "\n"}

\* the k-th smallest element of a set of numbers
Nth(S, k) == CHOOSE p \in S : Cardinality({q \in S : q < p}) = k - 1

\* str.split('\n')
SplitLines(s) ==
  LET nl == Breaks(s)
      n  == Cardinality(nl) + 1
  IN  [k \in 1..n |->
         SubSeq(s, IF k = 1 THEN 1 ELSE Nth(nl, k - 1) + 1,
                   IF k = n THEN Len(s) ELSE Nth(nl, k) - 1)]

\* the tuple given to startswith
StartKeywords == {"SELECT", "WITH", "FROM", "WHERE", "GROUP", "ORDER", "HAVING"}

\* the list scanned with "keyword in stripped.upper()"
ContainKeywords == {"SELECT", "FROM", "WHERE", "JOIN"}

\* the condition under which a stripped line is kept
LooksLikeSql(stripped) ==
  /\ stripped # ""
  /\ \/ \E p \in StartKeywords : StartsWith(Upper(stripped), p)
     \/ \E k \in ContainKeywords : Contains(Upper(stripped), k)

RECURSIVE JoinFrom(_, _)
JoinFrom(seq, i) ==
  IF i > Len(seq) THEN ""
  ELSE IF i = Len(seq) THEN seq[i]
  ELSE seq[i] \o " " \o JoinFrom(seq, i + 1)

\* ' '.join(seq)
JoinSpace(seq) == JoinFrom(seq, 1)

RECURSIVE JoinLinesFrom(_, _)
JoinLinesFrom(seq, i) ==
  IF i > Len(seq) THEN ""
  ELSE IF i = Len(seq) THEN seq[i]
  ELSE seq[i] \o "\n" \o JoinLinesFrom(seq, i + 1)

\* "\n".join(seq)
JoinLines(seq) == JoinLinesFrom(seq, 1)

\* mutant of ExtractSqlFromResponse: without the fallback of line 295
ExtractSqlNoFallback(response) ==
  LET lines == SplitLines(Strip(response))
  IN  JoinSpace(SelectSeq([k \in 1..Len(lines) |-> Strip(lines[k])], LooksLikeSql))

ExtractSqlFromResponse(response) ==
  LET lines == SplitLines(Strip(response))
      sql_lines == SelectSeq([k \in 1..Len(lines) |-> Strip(lines[k])], LooksLikeSql)
  IN  IF Len(sql_lines) > 0 THEN JoinSpace(sql_lines) ELSE Strip(response)

(***************************************************************************)
(* DatabaseManager                                                         *)
(***************************************************************************)

NotConfiguredMsg ==
  "Database not configured. Please check your environment variables or Streamlit secrets."

\* a keyword scan that omits the upper-casing of line 146
DbForbiddenCaseSensitive(query) == FirstForbidden(Strip(query))

\* a keyword scan that matches the keywords anywhere, without the \b anchors
DbForbiddenSubstring(query) ==
  LET query_upper == Upper(Strip(query))
      hits == {k \in 1..Len(ForbiddenKeywords) : Contains(query_upper, ForbiddenKeywords[k])}
  IN  IF hits = {} THEN 0
      ELSE CHOOSE k \in hits : \A j \in hits : k <= j

\* the keyword scan of DatabaseManager.execute_query: index of the first
\* matching pattern, 0 when none matches
DbForbidden(query) == FirstForbidden(Upper(Strip(query)))

DbForbiddenMsg(k) ==
  "Query contains forbidden keyword: " \o ForbiddenKeywords[k]
     \o ". Only read-only operations allowed."

\* the canned analytic statement of get_default_query_results
default_query ==
     "\n"
  \o "        WITH daily_prompts AS (\n"
  \o "            SELECT ph.user_id, DATE_TRUNC('day', ph.created_at) AS prompt_date, COUNT(ph.prompt_id) AS prompts_per_day\n"
  \o "            FROM prompt_history ph\n"
  \o "            WHERE ph.user_id NOT IN (329, 136)\n"
  \o "            GROUP BY ph.user_id, DATE_TRUNC('day', ph.created_at)\n"
  \o "        ),\n"
  \o "        user_avg_prompts AS (\n"
  \o "            SELECT dp.user_id, AVG(dp.prompts_per_day) AS avg_prompts_per_day, SUM(dp.prompts_per_day) AS total_prompts, COUNT(dp.prompt_date) AS total_days\n"
  \o "            FROM daily_prompts dp\n"
  \o "            GROUP BY dp.user_id\n"
  \o "        ),\n"
  \o "        user_details AS (\n"
  \o "            SELECT u.user_id, u.name, u.email, u.created_at\n"
  \o "            FROM usertable u\n"
  \o "            WHERE u.user_id NOT IN (329, 136)\n"
  \o "        )\n"
  \o "        SELECT\n"
  \o "            ud.user_id,\n"
  \o "            ud.name,\n"
  \o "            ud.email,\n"
  \o "            ud.created_at,\n"
  \o "            uap.avg_prompts_per_day,\n"
  \o "            uap.total_prompts,\n"
  \o "            uap.total_days,\n"
  \o "            ROUND(uap.total_prompts / 30.0, 2) AS calculated_avg_prompts_per_day\n"
  \o "        FROM user_details ud\n"
  \o "        JOIN user_avg_prompts uap ON ud.user_id = uap.user_id\n"
  \o "        ORDER BY ud.user_id;\n"
  \o "        "

EngineErrorMsg == "could not create engine"
BackendErrorMsg == "relation does not exist"

(***************************************************************************)
(* Bounds and input sets                                                   *)
(***************************************************************************)

\* requests started in one behaviour
MaxCalls == 2
\* rows of a table the backend returns
MaxRows == 1
\* pieces concatenated into one statement of the validator specification
MaxParts == 3

Sessions == {"s1", "s2"}
\* the question each session asks
QuestionOf == [s \in Sessions |-> IF s = "s1" THEN "how many users" ELSE "delete everyone"]
RowValues == {"alice"}

\* the answer of MockLLM._call to a prompt that contains SELECT, as the
\* system prompt always does
MockAnswer == "SELECT * FROM usertable LIMIT 5;"

\* texts a language-model backend may answer with: an assistant that answers
\* as MockLLM does or with a deleting statement, and an adversary whose
\* answers pass the validator
LlmAnswers(l) ==
  IF l = "assistant"
  THEN {MockAnswer, "DELETE FROM usertable"}
  ELSE {"Here is the query:\nselect * into backup\nfrom usertable",
        "WITH src AS (SELECT 1 AS id) MERGE INTO usertable u USING src ON u.user_id = src.id WHEN MATCHED THEN DO NOTHING"}

LlmBackends == {"assistant", "adversary"}

LlmResponses == UNION {LlmAnswers(l) : l \in LlmBackends}

LlmErrorMsg == "LLM backend unreachable"
MemoryErrorMsg == "could not add message"

\* what a call self.llm(prompt) can do: answer, or raise
LlmOutcomes(l) ==
  {[raised |-> FALSE, msg |-> "", text |-> r] : r \in LlmAnswers(l)}
    \cup {[raised |-> TRUE, msg |-> LlmErrorMsg, text |-> ""]}

\* a table is the sequence of its rows
Tables == UNION {[1..n -> RowValues] : n \in 0..MaxRows}

\* what pd.read_sql_query can do with a statement the backend received:
\* return a table, or raise the backend's error
BackendOutcomes ==
  {[raised |-> FALSE, msg |-> "", table |-> tb] : tb \in Tables}
    \cup {[raised |-> TRUE, msg |-> BackendErrorMsg, table |-> <<>>]}

\* statements handed to DatabaseManager.execute_query by its direct callers
DirectStatements ==
  { "DROP TABLE usertable",
    "VACUUM usertable" }

\* arguments of get_sample_data
TableNames == {"usertable", "usertable; DROP TABLE usertable"}
Limits == {"5"}

\* the pieces statements of the validator specification are made of
Pieces ==
  {"SELECT", "with", " ", "Insert", "DROP", "exec", "ute", "_", "'"}

RECURSIVE Concats(_)
Concats(n) ==
  IF n = 0 THEN {""}
  ELSE LET prev == Concats(n - 1)
       IN  prev \cup {a \o p : a \in prev, p \in Pieces}

Statements == Concats(MaxParts)

\* the statements get_sample_data builds from a table name and a limit
SampleStatements ==
  {"SELECT * FROM " \o tn \o " LIMIT " \o l : tn \in TableNames, l \in Limits}

\* the statements of the validator specification: the generated ones and
\* those of the direct callers
ProbeStatements == Statements \cup DirectStatements \cup SampleStatements

(***************************************************************************)
(* State                                                                   *)
(***************************************************************************)

VARIABLES
  is_configured,         \* DatabaseManager.is_configured
  engine,                \* DatabaseManager.engine: "None" or "Engine"
  sql_agent,             \* the module global sql_agent: "None" or "SQLAgent"
  llm,                   \* the language-model backend given to get_sql_agent
  conversation_history,  \* SQLAgent.conversation_history
  chat_memory,           \* SQLAgent.memory.chat_memory.messages
  req,                   \* per session: the frame of execute_query_with_context
  calls_started,         \* requests started so far
  backend_last,          \* the last statement the backend received outside a
                         \* request, and its path; a request's is req[s].sent
  stmt,                  \* validator specification: the statement under test
  agent_verdict,         \* validator specification: result of _validate_query_safety
  db_outcome,            \* result of the last direct DatabaseManager.execute_query
  db_config,             \* DatabaseManager.db_config: database, user, password
  mgr_out,               \* the last call of another DatabaseManager method and
                         \* what it returned or raised
  context,               \* result of the last _format_conversation_context()
  recorded,              \* the sessions whose requests appended the entries of
                         \* conversation_history, in the order of their appends
  candidate,             \* extraction specification: the result of the last
                         \* _extract_sql_from_response(stmt)
  getter,                \* per caller: the frame of its call of get_sql_agent
  agents                 \* the SQLAgent objects constructed so far, and which
                         \* of them the global sql_agent refers to

vars == << is_configured, engine, sql_agent, llm, conversation_history, chat_memory,
           req, calls_started, backend_last, stmt, agent_verdict, db_outcome,
           db_config, mgr_out, context, recorded, candidate, getter, agents >>

\* what get_db_config may return for a required field: None, an empty
\* text, or a value
ConfigValues == {"None", "", "dashboard"}
RequiredFields == {"database", "user", "password"}

\* mutant of Configured: the password is not required
ConfiguredWithoutPassword(cfg) ==
  \A f \in RequiredFields \ {"password"} : cfg[f] \notin {"None", ""}

\* missing_fields of DatabaseManager.__init__ is empty
Configured(cfg) == \A f \in RequiredFields : cfg[f] \notin {"None", ""}

CompleteConfig == [f \in RequiredFields |-> "dashboard"]

\* no call of get_engine, test_connection, get_schema_info or
\* get_schema_string yet
NoCall ==
  [ op |-> "none", raised |-> FALSE, msg |-> "", ok |-> FALSE, info |-> <<>>,
    text |-> "", failed_at |-> "none", connected |-> FALSE ]

\* _format_conversation_context not called yet
NoContext == [done |-> FALSE, text |-> ""]

\* _extract_sql_from_response not called yet
NoCandidate == [done |-> FALSE, text |-> ""]

\* a caller that is not inside get_sql_agent
NoGetter == [pc |-> "idle", llm |-> "None", got |-> 0]

\* no SQLAgent constructed, the global is None
NoAgents == [built |-> <<>>, current |-> 0]

NoStatement == [stmt |-> "", path |-> "none"]
Pending == [raised |-> FALSE, msg |-> "pending"]

IdleReq ==
  [ pc |-> "idle", question |-> "", query |-> "",
    has_query |-> FALSE, sql_query |-> "", result_df |-> <<>>, error |-> "",
    failed_at |-> "none", llm_calls |-> 0, exec_calls |-> 0, appended |-> 0,
    backend_table |-> <<>>, backend_ok |-> FALSE, sent |-> "",
    entry |-> [question |-> "", sql_query |-> "", response |-> "",
               result_count |-> 0] ]

\* all but the configuration: the state after the modules are imported
InitRest ==
  /\ is_configured = Configured(db_config)
  /\ mgr_out = NoCall
  /\ context = NoContext
  /\ recorded = <<>>
  /\ candidate = NoCandidate
  /\ getter = [c \in Sessions |-> NoGetter]
  /\ agents = NoAgents

InitCommon ==
  /\ db_config \in {CompleteConfig, [CompleteConfig EXCEPT !["password"] = ""]}
  /\ InitRest
  /\ engine = "None"
  /\ sql_agent = "None"
  /\ conversation_history = <<>>
  /\ chat_memory = <<>>
  /\ req = [s \in Sessions |-> IdleReq]
  /\ calls_started = 0
  /\ backend_last = NoStatement
  /\ agent_verdict = Pending
  /\ db_outcome = Pending

Init == InitCommon /\ llm = "assistant" /\ stmt = ""

InitAdversary == InitCommon /\ llm = "adversary" /\ stmt = ""

(***************************************************************************)
(* DatabaseManager.execute_query                                           *)
(***************************************************************************)

\* execute_query on a statement whose keyword scan gave k: the set of its
\* possible results, one for each thing create_engine and the backend may do
ExecuteQueryScanned(query, k) ==
  IF ~is_configured
  THEN {[raised |-> TRUE, msg |-> NotConfiguredMsg, table |-> <<>>,
         eng |-> engine, sent |-> FALSE]}
  ELSE IF k # 0
  THEN {[raised |-> TRUE, msg |-> DbForbiddenMsg(k), table |-> <<>>,
         eng |-> engine, sent |-> FALSE]}
  ELSE (IF engine = "None"
        THEN {[raised |-> TRUE, msg |-> EngineErrorMsg, table |-> <<>>,
               eng |-> "None", sent |-> FALSE]}
        ELSE {})
       \cup {[raised |-> o.raised, msg |-> o.msg, table |-> o.table,
               eng |-> "Engine", sent |-> TRUE] : o \in BackendOutcomes}

\* the scans of the statements known in advance, computed once
DbScanTable ==
  [q \in ProbeStatements \cup {default_query} |-> DbForbidden(q)]

DbScan(query) ==
  IF query \in DOMAIN DbScanTable THEN DbScanTable[query] ELSE DbForbidden(query)

ExecuteQuery(query) == ExecuteQueryScanned(query, DbScan(query))

\* the backend's record of the statement it received on a path
Sent(r, query, path) ==
  IF r.sent THEN [stmt |-> query, path |-> path] ELSE backend_last

AgentUnchanged ==
  UNCHANGED << sql_agent, llm, conversation_history, chat_memory, req, calls_started,
               recorded >>
ObsUnchanged == UNCHANGED << db_config, mgr_out, context, candidate, getter, agents >>
ProbeUnchanged == UNCHANGED << stmt, agent_verdict >> /\ ObsUnchanged

\* a direct call of db_manager.execute_query(query)
DirectCall(query, path) ==
  \E r \in ExecuteQuery(query) :
    /\ engine' = r.eng
    /\ backend_last' = Sent(r, query, path)
    /\ db_outcome' = [raised |-> r.raised, msg |-> r.msg]
    /\ UNCHANGED is_configured
    /\ AgentUnchanged

\* a caller such as security_test.py or simple_dashboard.py hands the
\* statement under test to db_manager.execute_query
ExecuteQueryDirect ==
  /\ db_outcome = Pending
  /\ DirectCall(stmt, "direct")
  /\ ProbeUnchanged

\* DatabaseManager.get_sample_data(table_name, limit), for the arguments
\* that build the statement under test
GetSampleData ==
  /\ db_outcome = Pending
  /\ \E tn \in TableNames, l \in Limits :
        /\ stmt = "SELECT * FROM " \o tn \o " LIMIT " \o l
        /\ DirectCall("SELECT * FROM " \o tn \o " LIMIT " \o l, "sample")
  /\ ProbeUnchanged

\* SQLAgent.get_default_query_results
GetDefaultQueryResults ==
  /\ sql_agent = "SQLAgent"
  /\ \E e \in {<<r.eng, Sent(r, default_query, "default")>> :
                    r \in ExecuteQuery(default_query)} :
       /\ engine' = e[1]
       /\ backend_last' = e[2]
  /\ UNCHANGED db_outcome
  /\ UNCHANGED is_configured
  /\ AgentUnchanged
  /\ ProbeUnchanged

(***************************************************************************)
(* SQLAgent                                                                *)
(***************************************************************************)

RECURSIVE NatToStr(_)
\* str(n) of a natural number
NatToStr(n) ==
  IF n < Len(Digits) THEN Char(Digits, n + 1)
  ELSE NatToStr(n \div Len(Digits)) \o Char(Digits, (n % Len(Digits)) + 1)

\* get_sql_agent with SQLAgent.__init__: the global is set only when the
\* constructor returns
GetSqlAgent ==
  /\ sql_agent = "None"
  /\ \E engine_ok \in BOOLEAN, database_ok \in BOOLEAN :
       IF ~is_configured
       THEN UNCHANGED << engine, sql_agent, conversation_history, chat_memory >>
       ELSE IF engine = "None" /\ ~engine_ok
       THEN UNCHANGED << engine, sql_agent, conversation_history, chat_memory >>
       ELSE IF ~database_ok
       THEN /\ engine' = "Engine"
            /\ UNCHANGED << sql_agent, conversation_history, chat_memory >>
       ELSE /\ engine' = "Engine"
            /\ sql_agent' = "SQLAgent"
            /\ conversation_history' = <<>>
            /\ chat_memory' = <<>>
  /\ UNCHANGED << is_configured, llm, req, calls_started, backend_last, db_outcome >>
  /\ UNCHANGED recorded
  /\ ProbeUnchanged

DbUnchanged == UNCHANGED << is_configured, engine, backend_last, db_outcome >>

\* a caller enters execute_query_with_context(question)
StartRequest(s) ==
  /\ sql_agent = "SQLAgent"
  /\ req[s].pc = "idle"
  /\ calls_started < MaxCalls
  /\ calls_started' = calls_started + 1
  /\ req' = [req EXCEPT ![s] = [IdleReq EXCEPT !.pc = "generate", !.question = QuestionOf[s]]]
  /\ UNCHANGED << sql_agent, llm, conversation_history, chat_memory >>
  /\ DbUnchanged
  /\ UNCHANGED recorded
  /\ ProbeUnchanged

\* mutant of GenerateSqlQuery: the call of _validate_query_safety left out
GenerateSqlQueryUnchecked(response) ==
  [raised |-> FALSE, msg |-> "", query |-> ExtractSqlFromResponse(response)]

\* generate_sql_query after the model answered: extract, validate, return
GenerateSqlQuery(response) ==
  LET query == ExtractSqlFromResponse(response)
      v == ValidateQuerySafety(query)
  IN  [raised |-> v.raised, msg |-> v.msg, query |-> query]

\* generate_sql_query on the answers the model may give, computed once
GenerateTable == [r \in LlmResponses |-> GenerateSqlQuery(r)]

\* sql_query = self.generate_sql_query(question): the call of the model and
\* the handling of its answer, which touch no state shared between sessions
Generate(s) ==
  /\ req[s].pc = "generate"
  /\ \E o \in LlmOutcomes(llm) :
       req' = [req EXCEPT ![s] =
                 IF o.raised
                 THEN [@ EXCEPT !.pc = "record_error", !.error = o.msg,
                                !.llm_calls = @ + 1,
                                !.failed_at = "generation"]
                 ELSE LET g == GenerateTable[o.text]
                      IN  IF g.raised
                          THEN [@ EXCEPT !.pc = "record_error", !.error = g.msg,
                                         !.query = g.query, !.has_query = TRUE,
                                         !.llm_calls = @ + 1,
                                         !.failed_at = "validation"]
                          ELSE [@ EXCEPT !.pc = "execute", !.query = g.query,
                                         !.has_query = TRUE,
                                         !.llm_calls = @ + 1,
                                         !.sql_query = g.query]]
  /\ UNCHANGED << sql_agent, llm, conversation_history, chat_memory, calls_started >>
  /\ DbUnchanged
  /\ UNCHANGED recorded
  /\ ProbeUnchanged

\* mutant of DbExecute: the upper-cased working copy of the validator is
\* what is executed
DbExecuteUpper(s) ==
  /\ req[s].pc = "execute"
  /\ \E r \in ExecuteQuery(Upper(req[s].sql_query)) :
       /\ engine' = r.eng
       /\ req' = [req EXCEPT ![s] =
                    IF r.raised
                    THEN [@ EXCEPT !.pc = "record_error", !.error = r.msg,
                                   !.failed_at = "execution",
                                   !.exec_calls = @ + 1,
                                   !.sent = IF r.sent THEN Upper(req[s].sql_query) ELSE ""]
                    ELSE [@ EXCEPT !.pc = "record_ok", !.result_df = r.table,
                                   !.backend_table = r.table,
                                   !.backend_ok = TRUE,
                                   !.exec_calls = @ + 1,
                                   !.sent = IF r.sent THEN Upper(req[s].sql_query) ELSE ""]]
  /\ UNCHANGED << is_configured, backend_last, db_outcome >>
  /\ UNCHANGED << sql_agent, llm, conversation_history, chat_memory, calls_started >>
  /\ UNCHANGED recorded
  /\ ProbeUnchanged

\* result_df = self.db_manager.execute_query(sql_query)
DbExecute(s) ==
  /\ req[s].pc = "execute"
  /\ \E r \in ExecuteQuery(req[s].sql_query) :
       /\ engine' = r.eng
       /\ req' = [req EXCEPT ![s] =
                    IF r.raised
                    THEN [@ EXCEPT !.pc = "record_error", !.error = r.msg,
                                   !.failed_at = "execution",
                                   !.exec_calls = @ + 1,
                                   !.sent = IF r.sent THEN req[s].sql_query ELSE ""]
                    ELSE [@ EXCEPT !.pc = "record_ok", !.result_df = r.table,
                                   !.backend_table = r.table,
                                   !.backend_ok = TRUE,
                                   !.exec_calls = @ + 1,
                                   !.sent = IF r.sent THEN req[s].sql_query ELSE ""]]
  /\ UNCHANGED << is_configured, backend_last, db_outcome >>
  /\ UNCHANGED << sql_agent, llm, conversation_history, chat_memory, calls_started >>
  /\ UNCHANGED recorded
  /\ ProbeUnchanged

\* mutant of SuccessEntry: result_count left at 0
SuccessEntryCountZero(question, sql_query, result_df) ==
  [ question |-> question,
    sql_query |-> sql_query,
    response |-> "Query executed successfully, returned "
                   \o NatToStr(Len(result_df)) \o " rows",
    result_count |-> 0 ]

\* the entry appended after a successful execution
SuccessEntry(question, sql_query, result_df) ==
  [ question |-> question,
    sql_query |-> sql_query,
    response |-> "Query executed successfully, returned "
                   \o NatToStr(Len(result_df)) \o " rows",
    result_count |-> Len(result_df) ]

\* mutant of ErrorEntry: the exception text is dropped
ErrorEntryNoText(question, error) ==
  [ question |-> question, sql_query |-> "",
    response |-> "Failed to execute query", result_count |-> 0 ]

\* the entry appended by the except block
ErrorEntry(question, error) ==
  [ question |-> question,
    sql_query |-> "",
    response |-> "Failed to execute query: " \o error,
    result_count |-> 0 ]

\* mutant of AppendEntry: the entry is put in front
PrependEntry(history, entry) == <<entry>> \o history

\* self.conversation_history.append(entry)
AppendEntry(history, entry) == Append(history, entry)

RecordSuccess(s) ==
  /\ req[s].pc = "record_ok"
  /\ conversation_history' =
       AppendEntry(conversation_history,
                   SuccessEntry(req[s].question, req[s].sql_query, req[s].result_df))
  /\ recorded' = Append(recorded, s)
  /\ req' = [req EXCEPT ![s].pc = "memory_user", ![s].appended = @ + 1,
                         ![s].entry = SuccessEntry(req[s].question, req[s].sql_query,
                                                   req[s].result_df)]
  /\ UNCHANGED << sql_agent, llm, chat_memory, calls_started >>
  /\ DbUnchanged
  /\ ProbeUnchanged

\* self.memory.chat_memory.add_user_message(question)
MemoryAddUser(s) ==
  /\ req[s].pc = "memory_user"
  /\ \E ok \in BOOLEAN :
       IF ok
       THEN /\ chat_memory' = Append(chat_memory,
                                     [type |-> "human", content |-> req[s].question])
            /\ req' = [req EXCEPT ![s].pc = "memory_ai"]
       ELSE /\ req' = [req EXCEPT ![s].pc = "record_error",
                                  ![s].error = MemoryErrorMsg,
                                  ![s].failed_at = "memory"]
            /\ UNCHANGED chat_memory
  /\ UNCHANGED << sql_agent, llm, conversation_history, calls_started >>
  /\ DbUnchanged
  /\ UNCHANGED recorded
  /\ ProbeUnchanged

\* self.memory.chat_memory.add_ai_message(...), then return result_df
MemoryAddAi(s) ==
  /\ req[s].pc = "memory_ai"
  /\ \E ok \in BOOLEAN :
       IF ok
       THEN /\ chat_memory' = Append(chat_memory,
                                     [type |-> "ai",
                                      content |-> "Executed query: " \o req[s].sql_query])
            /\ req' = [req EXCEPT ![s].pc = "returned"]
       ELSE /\ req' = [req EXCEPT ![s].pc = "record_error",
                                  ![s].error = MemoryErrorMsg,
                                  ![s].failed_at = "memory"]
            /\ UNCHANGED chat_memory
  /\ UNCHANGED << sql_agent, llm, conversation_history, calls_started >>
  /\ DbUnchanged
  /\ UNCHANGED recorded
  /\ ProbeUnchanged

\* mutant of RecordError: the failed request is tried again
RecordErrorRetry(s) ==
  /\ req[s].pc = "record_error"
  /\ req' = [req EXCEPT ![s].pc = "generate"]
  /\ UNCHANGED << sql_agent, llm, conversation_history, chat_memory, calls_started,
                  recorded >>
  /\ DbUnchanged
  /\ ProbeUnchanged

\* the except block: record the failure, then re-raise
RecordError(s) ==
  /\ req[s].pc = "record_error"
  /\ conversation_history' =
       AppendEntry(conversation_history, ErrorEntry(req[s].question, req[s].error))
  /\ recorded' = Append(recorded, s)
  /\ req' = [req EXCEPT ![s].pc = "raised", ![s].appended = @ + 1,
                         ![s].entry = ErrorEntry(req[s].question, req[s].error)]
  /\ UNCHANGED << sql_agent, llm, chat_memory, calls_started >>
  /\ DbUnchanged
  /\ ProbeUnchanged

\* the caller has taken the returned table or the raised exception
ReturnToCaller(s) ==
  /\ req[s].pc \in {"returned", "raised"}
  /\ req' = [req EXCEPT ![s] = IdleReq]
  /\ UNCHANGED << sql_agent, llm, conversation_history, chat_memory, calls_started >>
  /\ DbUnchanged
  /\ UNCHANGED recorded
  /\ ProbeUnchanged

\* mutant of ClearConversationHistory: the window memory is left as it is
ClearHistoryOnly ==
  /\ sql_agent = "SQLAgent"
  /\ conversation_history' = <<>>
  /\ recorded' = <<>>
  /\ UNCHANGED << sql_agent, llm, chat_memory, req, calls_started >>
  /\ DbUnchanged
  /\ ProbeUnchanged

\* SQLAgent.clear_conversation_history
ClearConversationHistory ==
  /\ sql_agent = "SQLAgent"
  /\ conversation_history' = <<>>
  /\ chat_memory' = <<>>
  /\ recorded' = <<>>
  /\ UNCHANGED << sql_agent, llm, req, calls_started >>
  /\ DbUnchanged
  /\ ProbeUnchanged

Next ==
  \/ GetSqlAgent
  \/ \E s \in Sessions : StartRequest(s)
  \/ \E s \in Sessions : Generate(s)
  \/ \E s \in Sessions : DbExecute(s)
  \/ \E s \in Sessions : RecordSuccess(s)
  \/ \E s \in Sessions : MemoryAddUser(s)
  \/ \E s \in Sessions : MemoryAddAi(s)
  \/ \E s \in Sessions : RecordError(s)
  \/ \E s \in Sessions : ReturnToCaller(s)
  \/ ClearConversationHistory
  \/ GetDefaultQueryResults

Spec == Init /\ [][Next]_vars

\* the same system with a language-model backend that tries to get a
\* mutating statement past the validator
SpecAdversary == InitAdversary /\ [][Next]_vars

(***************************************************************************)
(* The validators as functions of one statement                            *)
(***************************************************************************)

InitValidator ==
  /\ InitCommon
  /\ llm = "assistant"
  /\ stmt \in ProbeStatements

\* _validate_query_safety on the statements under test, computed once
ValidateTable == [q \in ProbeStatements |-> ValidateQuerySafety(q)]

\* mutant of ClassifyStmt: a validator that remembers the conversation
ClassifyStmtStateful ==
  /\ agent_verdict' = IF Len(conversation_history) > 0
                      THEN Err("Query must start with SELECT or WITH")
                      ELSE ValidateTable[stmt]
  /\ UNCHANGED << is_configured, engine, backend_last, db_outcome, stmt >>
  /\ AgentUnchanged
  /\ ObsUnchanged

\* self._validate_query_safety(stmt), any number of times
ClassifyStmt ==
  /\ agent_verdict' = ValidateTable[stmt]
  /\ UNCHANGED << is_configured, engine, backend_last, db_outcome, stmt >>
  /\ AgentUnchanged
  /\ ObsUnchanged

NextValidator ==
  \/ ClassifyStmt
  \/ ExecuteQueryDirect
  \/ GetSampleData

SpecValidator == InitValidator /\ [][NextValidator]_vars

(***************************************************************************)
(* The validator called between the operations of the agent                *)
(***************************************************************************)

\* an agent that has served all but one of the requests of a behaviour and
\* was then cleared
InitPure ==
  /\ db_config = CompleteConfig
  /\ InitRest
  /\ engine = "Engine"
  /\ sql_agent = "SQLAgent"
  /\ llm = "assistant"
  /\ conversation_history = <<>>
  /\ chat_memory = <<>>
  /\ req = [s \in Sessions |-> IdleReq]
  /\ calls_started = MaxCalls - 1
  /\ backend_last = NoStatement
  /\ stmt \in DirectStatements \cup SampleStatements
  /\ agent_verdict = Pending
  /\ db_outcome = Pending

NextPure ==
  \/ ClassifyStmt
  \/ \E s \in Sessions : StartRequest(s)
  \/ \E s \in Sessions : Generate(s)
  \/ \E s \in Sessions : DbExecute(s)
  \/ \E s \in Sessions : RecordSuccess(s)
  \/ \E s \in Sessions : MemoryAddUser(s)
  \/ \E s \in Sessions : MemoryAddAi(s)
  \/ \E s \in Sessions : RecordError(s)
  \/ \E s \in Sessions : ReturnToCaller(s)
  \/ ClearConversationHistory

SpecPure == InitPure /\ [][NextPure]_vars

(***************************************************************************)
(* DatabaseManager: get_engine, test_connection, schema introspection       *)
(***************************************************************************)

\* width of the rule under a table name: "="*40
RuleWidth == 40

NoSchemaMsg ==
  "No schema information available. Please check database configuration."

\* what get_engine can do: the set of its results, with the engine it leaves
GetEngineOutcomes ==
  IF ~is_configured
  THEN {[raised |-> TRUE, msg |-> NotConfiguredMsg, eng |-> engine]}
  ELSE IF engine = "None"
  THEN {[raised |-> TRUE, msg |-> EngineErrorMsg, eng |-> "None"],
        [raised |-> FALSE, msg |-> "", eng |-> "Engine"]}
  ELSE {[raised |-> FALSE, msg |-> "", eng |-> engine]}

\* frame of the calls below
ManagerUnchanged ==
  /\ UNCHANGED << is_configured, backend_last, db_outcome, stmt, agent_verdict,
                  db_config, context, candidate, getter, agents >>
  /\ AgentUnchanged

\* db_manager.get_engine()
GetEngine ==
  /\ \E g \in GetEngineOutcomes :
       /\ engine' = g.eng
       /\ mgr_out' = [NoCall EXCEPT !.op = "get_engine", !.raised = g.raised,
                                    !.msg = g.msg]
  /\ ManagerUnchanged

\* db_manager.test_connection(): False when unconfigured, when the engine
\* cannot be made or when SELECT 1 fails
TestConnection ==
  /\ IF ~is_configured
     THEN /\ mgr_out' = [NoCall EXCEPT !.op = "test_connection"]
          /\ UNCHANGED engine
     ELSE \E g \in GetEngineOutcomes :
            /\ engine' = g.eng
            /\ IF g.raised
               THEN mgr_out' = [NoCall EXCEPT !.op = "test_connection", !.msg = g.msg,
                                              !.failed_at = "engine"]
               ELSE \E select_ok \in BOOLEAN :
                      mgr_out' = [NoCall EXCEPT !.op = "test_connection",
                                                !.ok = select_ok,
                                                !.msg = IF select_ok THEN ""
                                                        ELSE BackendErrorMsg,
                                                !.failed_at = IF select_ok THEN "none"
                                                              ELSE "connect",
                                                !.connected = TRUE]
  /\ ManagerUnchanged

\* the columns the inspector reports for the tables of the database
Column(name, type, nullable, default) ==
  [name |-> name, type |-> type, nullable |-> nullable, default |-> default]

CatalogTables ==
  << [table |-> "usertable",
      columns |-> << Column("user_id", "INTEGER", FALSE, "nextval('usertable_user_id_seq')"),
                     Column("name", "VARCHAR", TRUE, "") >>],
     [table |-> "prompt_history",
      columns |-> << Column("prompt_id", "INTEGER", FALSE, "") >>] >>

\* the databases the manager may be pointed at: the first n tables
Catalogs == {SubSeq(CatalogTables, 1, n) : n \in 0..Len(CatalogTables)}

\* mutant of OnIntrospectionFailure: what was read so far is returned
OnIntrospectionFailurePartial(partial) == partial

\* the except block of get_schema_info: return {}
OnIntrospectionFailure(partial) == <<>>

\* get_schema_info: the set of its results, one for each thing the engine
\* and the inspector may do
GetSchemaInfoOutcomes ==
  IF ~is_configured
  THEN {[info |-> <<>>, failed_at |-> "unconfigured", msg |-> "", eng |-> engine,
         connected |-> FALSE]}
  ELSE UNION {
    IF g.raised
    THEN {[info |-> OnIntrospectionFailure(<<>>), failed_at |-> "engine",
           msg |-> g.msg, eng |-> g.eng, connected |-> FALSE]}
    ELSE {[info |-> OnIntrospectionFailure(<<>>), failed_at |-> "tables",
           msg |-> "get_table_names failed", eng |-> g.eng, connected |-> TRUE]}
         \cup UNION {
           {[info |-> catalog, failed_at |-> "none", msg |-> "", eng |-> g.eng,
             connected |-> TRUE]}
           \cup {[info |-> OnIntrospectionFailure(SubSeq(catalog, 1, i - 1)),
                  failed_at |-> "columns",
                  msg |-> "get_columns failed for " \o catalog[i].table,
                  eng |-> g.eng, connected |-> TRUE] : i \in 1..Len(catalog)}
           : catalog \in Catalogs}
    : g \in GetEngineOutcomes}

\* db_manager.get_schema_info()
GetSchemaInfo ==
  /\ \E o \in GetSchemaInfoOutcomes :
       /\ engine' = o.eng
       /\ mgr_out' = [NoCall EXCEPT !.op = "get_schema_info", !.info = o.info,
                                    !.msg = o.msg, !.failed_at = o.failed_at,
                                    !.connected = o.connected]
  /\ ManagerUnchanged

RECURSIVE Repeat(_, _)
\* s * n
Repeat(s, n) == IF n = 0 THEN "" ELSE s \o Repeat(s, n - 1)

\* one line of column_parts
ColumnPart(col) ==
  "  " \o col.name \o ": " \o col.type \o " "
    \o (IF col.nullable THEN "NULL" ELSE "NOT NULL")
    \o (IF col.default # "" THEN " DEFAULT " \o col.default ELSE "")

\* one element of schema_parts
TablePart(entry) ==
  "\nTable: " \o entry.table \o "\n" \o Repeat("=", RuleWidth) \o "\n"
    \o JoinLines([k \in 1..Len(entry.columns) |-> ColumnPart(entry.columns[k])])

\* get_schema_string on the snapshot its call of get_schema_info returned
SchemaString(schema_info) ==
  IF Len(schema_info) = 0 THEN NoSchemaMsg
  ELSE JoinLines([k \in 1..Len(schema_info) |-> TablePart(schema_info[k])])

\* db_manager.get_schema_string()
GetSchemaString ==
  /\ \E o \in GetSchemaInfoOutcomes :
       /\ engine' = o.eng
       /\ mgr_out' = [NoCall EXCEPT !.op = "get_schema_string", !.info = o.info,
                                    !.msg = o.msg, !.failed_at = o.failed_at,
                                    !.connected = o.connected,
                                    !.text = SchemaString(o.info)]
  /\ ManagerUnchanged

\* a manager constructed from any configuration, before its first call
InitManager ==
  /\ db_config \in [RequiredFields -> ConfigValues]
  /\ InitRest
  /\ engine = "None"
  /\ sql_agent = "None"
  /\ llm = "assistant"
  /\ conversation_history = <<>>
  /\ chat_memory = <<>>
  /\ req = [s \in Sessions |-> IdleReq]
  /\ calls_started = 0
  /\ backend_last = NoStatement
  /\ stmt \in DirectStatements \cup SampleStatements
  /\ agent_verdict = Pending
  /\ db_outcome = Pending

NextManager ==
  \/ GetEngine
  \/ TestConnection
  \/ GetSchemaInfo
  \/ GetSchemaString
  \/ ExecuteQueryDirect

SpecManager == InitManager /\ [][NextManager]_vars

(***************************************************************************)
(* SQLAgent._format_conversation_context as a function of the history      *)
(***************************************************************************)

\* entries rendered into the prompt: history[-3:]
ContextWindow == 3
\* characters of a response kept: response[:200]
ResponseLimit == 200
\* entries of a history of the context specification
MaxHistory == 6

NoConversationText == "No previous conversation."

\* a backend error text of more than ResponseLimit characters
LongErrorMsg ==
  "(psycopg2.OperationalError) connection to server at db.internal (10.0.0.12), "
    \o "port 5432 failed: FATAL: remaining connection slots are reserved for "
    \o "non-replication superuser connections; the pooler reported 115 clients "
    \o "waiting and gave up after 30 seconds"

\* mutant of RecentExchanges: the whole history
AllExchanges(history) == history

\* self.conversation_history[-3:]
RecentExchanges(history) ==
  IF Len(history) <= ContextWindow THEN history
  ELSE SubSeq(history, Len(history) - ContextWindow + 1, Len(history))

\* mutant of Truncate: the whole text
NoTruncate(s, n) == s

\* s[:n]
Truncate(s, n) == IF Len(s) <= n THEN s ELSE SubSeq(s, 1, n)

\* the three parts appended for the i-th exchange of the window
ExchangeParts(i, exchange) ==
  << "Exchange " \o NatToStr(i) \o ":",
     "  User: " \o exchange.question,
     "  Assistant: " \o Truncate(exchange.response, ResponseLimit) \o "..." >>

RECURSIVE ContextParts(_, _)
\* context_parts after the loop over the exchanges from the i-th on
ContextParts(exchanges, i) ==
  IF i > Len(exchanges) THEN <<>>
  ELSE ExchangeParts(i, exchanges[i]) \o ContextParts(exchanges, i + 1)

\* mutant of FormatConversationContext: the test for an empty history left out
FormatConversationContextNoGuard(history) ==
  JoinLines(ContextParts(RecentExchanges(history), 1))

FormatConversationContext(history) ==
  IF Len(history) = 0 THEN NoConversationText
  ELSE JoinLines(ContextParts(RecentExchanges(history), 1))

\* entries as execute_query_with_context records them, with distinct questions
EntrySamples ==
  << SuccessEntry("how many users", MockAnswer, <<"alice">>),
     ErrorEntry("delete everyone", "Query contains forbidden keyword: DELETE"),
     ErrorEntry("list prompts", LongErrorMsg) >>

Histories ==
  UNION {[1..n -> {EntrySamples[k] : k \in 1..Len(EntrySamples)}] : n \in 0..MaxHistory}

\* an agent whose earlier requests left a history
InitContext ==
  /\ db_config = CompleteConfig
  /\ InitRest
  /\ engine = "Engine"
  /\ sql_agent = "SQLAgent"
  /\ llm = "assistant"
  /\ conversation_history \in Histories
  /\ chat_memory = <<>>
  /\ req = [s \in Sessions |-> IdleReq]
  /\ calls_started = Len(conversation_history)
  /\ backend_last = NoStatement
  /\ stmt = ""
  /\ agent_verdict = Pending
  /\ db_outcome = Pending

\* context = self._format_conversation_context()
FormatContext ==
  /\ sql_agent = "SQLAgent"
  /\ context' = [done |-> TRUE, text |-> FormatConversationContext(conversation_history)]
  /\ UNCHANGED << is_configured, engine, backend_last, db_outcome, stmt, agent_verdict,
                  db_config, mgr_out, candidate, getter, agents >>
  /\ AgentUnchanged

NextContext ==
  \/ FormatContext
  \/ ClearConversationHistory

SpecContext == InitContext /\ [][NextContext]_vars

(***************************************************************************)
(* generate_sql_query as a function of the answer of the model             *)
(***************************************************************************)

\* lines of an answer of the extraction specification
MaxLines == 3

\* the lines the answers are made of: prose, a blank line, and the lines of
\* a query in upper and lower case, with and without surrounding blanks
ResponseLines ==
  { "Here is the query:",
    "",
    "SELECT name,",
    "  rank() OVER (ORDER BY id) AS rn",
    "from usertable",
    " JOIN prompt_history ph ON true " }

\* the answers self.llm(formatted_prompt) may return
Responses ==
  {JoinLines(ls) : ls \in UNION {[1..n -> ResponseLines] : n \in 0..MaxLines}}

\* an agent about to handle the answer stmt of the model
InitExtract ==
  /\ db_config = CompleteConfig
  /\ InitRest
  /\ engine = "Engine"
  /\ sql_agent = "SQLAgent"
  /\ llm = "assistant"
  /\ conversation_history = <<>>
  /\ chat_memory = <<>>
  /\ req = [s \in Sessions |-> IdleReq]
  /\ calls_started = 0
  /\ backend_last = NoStatement
  /\ stmt \in Responses
  /\ agent_verdict = Pending
  /\ db_outcome = Pending

\* lines 259-270 of generate_sql_query on the answer stmt: the candidate is
\* extracted and handed to the validator
GenerateForAnswer ==
  /\ sql_agent = "SQLAgent"
  /\ LET g == GenerateSqlQuery(stmt)
     IN  /\ candidate' = [done |-> TRUE, text |-> g.query]
         /\ agent_verdict' = [raised |-> g.raised, msg |-> g.msg]
  /\ UNCHANGED << is_configured, engine, backend_last, db_outcome, stmt, db_config,
                  mgr_out, context, getter, agents >>
  /\ AgentUnchanged

NextExtract == GenerateForAnswer

SpecExtract == InitExtract /\ [][NextExtract]_vars

(***************************************************************************)
(* get_sql_agent called from several sessions                              *)
(***************************************************************************)

\* the llm argument of get_sql_agent: left out, or a language model
LlmArgs == {"None", "llm"}

\* self.llm = llm or MockLLM()
LlmOrMock(arg) == IF arg = "None" THEN "MockLLM" ELSE arg

\* frame of the steps of get_sql_agent
GetterUnchanged ==
  /\ UNCHANGED << is_configured, llm, req, calls_started, backend_last, db_outcome,
                  stmt, agent_verdict, db_config, mgr_out, context, recorded,
                  candidate >>

\* a caller enters get_sql_agent(llm) and evaluates "sql_agent is None"
EnterGetSqlAgent(c) ==
  /\ getter[c].pc \in {"idle", "returned", "raised"}
  /\ \E a \in LlmArgs :
       getter' = [getter EXCEPT ![c] =
                    [pc |-> IF sql_agent = "None" THEN "construct" ELSE "return",
                     llm |-> a, got |-> 0]]
  /\ UNCHANGED << engine, sql_agent, conversation_history, chat_memory, agents >>
  /\ GetterUnchanged

\* sql_agent = SQLAgent(llm): the constructor, and the assignment to the
\* global when it returned
ConstructSqlAgent(c) ==
  /\ getter[c].pc = "construct"
  /\ \E engine_ok \in BOOLEAN, database_ok \in BOOLEAN :
       IF ~is_configured \/ (engine = "None" /\ ~engine_ok)
       THEN /\ getter' = [getter EXCEPT ![c].pc = "raised"]
            /\ UNCHANGED << engine, sql_agent, agents >>
       ELSE IF ~database_ok
       THEN /\ getter' = [getter EXCEPT ![c].pc = "raised"]
            /\ engine' = "Engine"
            /\ UNCHANGED << sql_agent, agents >>
       ELSE /\ getter' = [getter EXCEPT ![c].pc = "return"]
            /\ engine' = "Engine"
            /\ sql_agent' = "SQLAgent"
            /\ agents' = [built |-> Append(agents.built,
                                           [by |-> c, llm |-> LlmOrMock(getter[c].llm)]),
                          current |-> Len(agents.built) + 1]
  /\ UNCHANGED << conversation_history, chat_memory >>
  /\ GetterUnchanged

\* return sql_agent
ReturnSqlAgent(c) ==
  /\ getter[c].pc = "return"
  /\ getter' = [getter EXCEPT ![c].pc = "returned", ![c].got = agents.current]
  /\ UNCHANGED << engine, sql_agent, conversation_history, chat_memory, agents >>
  /\ GetterUnchanged

\* the process after the modules are imported
InitSingleton ==
  /\ InitCommon
  /\ llm = "assistant"
  /\ stmt = ""

NextSingleton ==
  \/ \E c \in Sessions : EnterGetSqlAgent(c)
  \/ \E c \in Sessions : ConstructSqlAgent(c)
  \/ \E c \in Sessions : ReturnSqlAgent(c)

SpecSingleton == InitSingleton /\ [][NextSingleton]_vars

(***************************************************************************)
(* Notions the properties are stated with                                  *)
(***************************************************************************)

\* positions where a maximal run of word characters starts
WordStarts(s) ==
  {i \in 1..Len(s) : IsWordChar(Char(s, i)) /\ (i = 1 \/ ~IsWordChar(Char(s, i - 1)))}

\* end of the maximal run of word characters that starts at i
WordEnd(s, i) ==
  CHOOSE j \in i..Len(s) :
    /\ \A k \in i..j : IsWordChar(Char(s, k))
    /\ (j = Len(s) \/ ~IsWordChar(Char(s, j + 1)))

\* the words of a text, upper-cased
UpperWords(s) == {Upper(SubSeq(s, i, WordEnd(s, i))) : i \in WordStarts(s)}

ForbiddenSet == {ForbiddenKeywords[k] : k \in 1..Len(ForbiddenKeywords)}

\* a forbidden keyword occurs as a whole word, in any letter case
HasForbiddenWord(s) == UpperWords(s) \cap ForbiddenSet # {}

\* a forbidden keyword occurs at least as a part of a word
HasForbiddenSubstring(s) == \E kw \in ForbiddenSet : Contains(Upper(s), kw)

\* the trimmed text begins with SELECT or WITH, in any letter case
BeginsAllowed(s) ==
  LET u == Upper(Strip(s))
  IN  StartsWith(u, "SELECT") \/ StartsWith(u, "WITH")

\* the first token of the trimmed text, upper-cased ("" when the text does
\* not begin with a word)
FirstToken(s) ==
  LET tr == Strip(s)
  IN  IF 1 \in WordStarts(tr) THEN Upper(SubSeq(tr, 1, WordEnd(tr, 1))) ELSE ""

KeywordReason == "Query contains forbidden keyword: "
StartReason == "Query must start with SELECT or WITH"

\* the error names a forbidden keyword that is a word of the statement
NamesKeywordOf(msg, s) ==
  \E kw \in UpperWords(s) \cap ForbiddenSet : StartsWith(msg, KeywordReason \o kw)

\* of a set of forbidden keywords, the one that comes first in the order
\* INSERT, UPDATE, DELETE, DROP, CREATE, ALTER, TRUNCATE, GRANT, REVOKE, EXEC,
\* EXECUTE ("" for the empty set)
EarliestListed(kws) ==
  IF kws = {} THEN ""
  ELSE LET order == << "INSERT", "UPDATE", "DELETE", "DROP", "CREATE", "ALTER",
                       "TRUNCATE", "GRANT", "REVOKE", "EXEC", "EXECUTE" >>
           at == {k \in 1..Len(order) : order[k] \in kws}
       IN  order[CHOOSE k \in at : \A j \in at : k <= j]

\* what is known of each statement under test, computed once
ProbeFacts ==
  [q \in ProbeStatements |->
     [ word   |-> HasForbiddenWord(q),
       sub    |-> HasForbiddenSubstring(q),
       begins |-> BeginsAllowed(q),
       first  |-> FirstToken(q),
       named  |-> EarliestListed(UpperWords(q) \cap ForbiddenSet) ]]

\* a statement that changes data or schema in PostgreSQL: one of the
\* forbidden verbs, SELECT ... INTO (which creates a table) or MERGE
MutatesData(q) ==
  UpperWords(q) \cap (ForbiddenSet \cup {"INTO", "MERGE"}) # {}

Finished(s) == req[s].pc \in {"returned", "raised"}

\* the request of session s failed in one of the three stages
StageFailure(s) ==
  /\ req[s].pc = "raised"
  /\ req[s].failed_at \in {"generation", "validation", "execution"}

\* str.endswith
EndsWith(s, e) == Len(s) >= Len(e) /\ SubSeq(s, Len(s) - Len(e) + 1, Len(s)) = e

\* the verdict of the validator on the candidates of the model's answers
\* and on the canned query, computed once
CandidateTable ==
  [q \in {ExtractSqlFromResponse(r) : r \in LlmResponses} \cup {default_query}
     |-> ValidateQuerySafety(q)]

\* the verdict of the validator on a statement the model handles
Verdict(q) ==
  IF q \in DOMAIN CandidateTable THEN CandidateTable[q] ELSE ValidateTable[q]

(***************************************************************************)
(* Properties                                                              *)
(***************************************************************************)

\* C1: every statement that a request of execute_query_with_context hands to
\* the backend is read-only, whatever the language model answered
C1_OnlyReadOnlyReachesBackend ==
  \A s \in Sessions : req[s].sent # "" => ~MutatesData(req[s].sent)

\* C2 (as claimed): a statement with a forbidden keyword as a whole word is
\* rejected by both validators with an error naming a forbidden keyword, and
\* is not sent to the backend
C2_ForbiddenWordRejectedNamingKeyword ==
  ProbeFacts[stmt].word =>
    /\ agent_verdict # Pending =>
         agent_verdict.raised /\ NamesKeywordOf(agent_verdict.msg, stmt)
    /\ db_outcome # Pending =>
         /\ db_outcome.raised
         /\ NamesKeywordOf(db_outcome.msg, stmt)
         /\ backend_last = NoStatement

\* C2 (amended): _validate_query_safety rejects it naming a forbidden keyword;
\* execute_query does so when the manager is configured, and rejects it with
\* the configuration error otherwise; the backend never receives it
C2_ForbiddenWordRejected ==
  ProbeFacts[stmt].word =>
    /\ agent_verdict # Pending =>
         agent_verdict.raised /\ NamesKeywordOf(agent_verdict.msg, stmt)
    /\ db_outcome # Pending =>
         /\ db_outcome.raised
         /\ IF is_configured THEN NamesKeywordOf(db_outcome.msg, stmt)
                             ELSE db_outcome.msg = NotConfiguredMsg
         /\ backend_last = NoStatement

\* C2 witness: a SELECT with a forbidden word in mixed case was rejected by
\* both validators of a configured manager
C2_Witness ==
  /\ is_configured
  /\ ProbeFacts[stmt].word /\ ProbeFacts[stmt].begins
  /\ "INSERT" \notin ForbiddenSet \/ ~Contains(stmt, "INSERT")
  /\ Contains(Upper(stmt), "INSERT")
  /\ agent_verdict # Pending /\ agent_verdict.raised
  /\ db_outcome # Pending /\ db_outcome.raised

\* C3: a statement that begins with SELECT or WITH and holds forbidden
\* keywords only inside longer words passes both keyword scans and is SAFE;
\* a keyword rejection happens only for a whole word
C3_SubstringOnlyIsSafe ==
  /\ (ProbeFacts[stmt].begins /\ ProbeFacts[stmt].sub /\ ~ProbeFacts[stmt].word) =>
       /\ agent_verdict # Pending => ~agent_verdict.raised
       /\ db_outcome # Pending => ~StartsWith(db_outcome.msg, KeywordReason)
  /\ (agent_verdict # Pending /\ StartsWith(agent_verdict.msg, KeywordReason)) =>
       ProbeFacts[stmt].word
  /\ (db_outcome # Pending /\ StartsWith(db_outcome.msg, KeywordReason)) =>
       ProbeFacts[stmt].word

\* C3 witness: such a statement was classified SAFE and reached the backend
C3_Witness ==
  /\ ProbeFacts[stmt].begins /\ ProbeFacts[stmt].sub /\ ~ProbeFacts[stmt].word
  /\ agent_verdict = Ok
  /\ backend_last = [stmt |-> stmt, path |-> "direct"]

\* C4: a statement whose first token is not SELECT or WITH is rejected, with
\* the must-start reason when it holds no forbidden keyword
C4_FirstTokenMustBeSelectOrWith ==
  (agent_verdict # Pending /\ ProbeFacts[stmt].first \notin {"SELECT", "WITH"}) =>
    /\ agent_verdict.raised
    /\ ~ProbeFacts[stmt].word => agent_verdict.msg = StartReason

\* C5: when the validator rejects the candidate of a request, the request
\* never calls DatabaseManager.execute_query and the caller gets the rejection
C5_RejectedNeverExecuted ==
  \A s \in Sessions :
    (req[s].has_query /\ Verdict(req[s].query).raised) =>
      /\ req[s].exec_calls = 0
      /\ req[s].sent = ""
      /\ req[s].pc \in {"record_error", "raised"}
      /\ req[s].failed_at = "validation"
      /\ req[s].error = Verdict(req[s].query).msg

\* C5 witness: the model answered DELETE FROM usertable and the caller got
\* the rejection
C5_Witness ==
  \E s \in Sessions :
    /\ req[s].pc = "raised"
    /\ req[s].query = "DELETE FROM usertable"
    /\ req[s].error = KeywordReason \o "DELETE"

\* C6: every statement the backend receives, on any path, is one the full
\* validator (keyword scan and leading-token check) classifies SAFE
C6_BackendReceivesOnlyValidated ==
  /\ backend_last # NoStatement => ~Verdict(backend_last.stmt).raised
  /\ \A s \in Sessions :
       req[s].sent # "" => ~Verdict(req[s].sent).raised

\* C7: a finished call of execute_query_with_context has appended exactly
\* one entry to conversation_history
C7_ExactlyOneEntryPerCall ==
  \A s \in Sessions : Finished(s) => req[s].appended = 1

\* C8: when the candidate was SAFE and the backend returned a table, the call
\* returns that table and its entry carries the question, the executed
\* statement and the table's row count
C8_SuccessReturnsTableAndRecordsIt ==
  \A s \in Sessions :
    (Finished(s) /\ req[s].backend_ok) =>
      /\ req[s].pc = "returned"
      /\ req[s].result_df = req[s].backend_table
      /\ req[s].entry.question = QuestionOf[s]
      /\ req[s].entry.sql_query = req[s].sent
      /\ req[s].entry.result_count = Len(req[s].backend_table)

\* C9: the step that records a failure of generation, validation or
\* execution appends exactly one entry, the only one of the request, with row
\* count 0, the error text in its outcome summary and the question asked
C9_FailureEntry ==
  [][\A s \in Sessions :
       (/\ req[s].pc = "record_error"
        /\ req'[s].pc = "raised"
        /\ req[s].failed_at \in {"generation", "validation", "execution"}) =>
         LET n == Len(conversation_history)
             e == conversation_history'[n + 1]
         IN  /\ Len(conversation_history') = n + 1
             /\ SubSeq(conversation_history', 1, n) = conversation_history
             /\ req'[s].appended = 1
             /\ e.result_count = 0
             /\ req[s].error # ""
             /\ EndsWith(e.response, req[s].error)
             /\ e.question = QuestionOf[s]]_vars

\* C9 witness: a backend error was recorded
C9_Witness ==
  \E s \in Sessions :
    /\ StageFailure(s)
    /\ req[s].failed_at = "execution"
    /\ req[s].error = BackendErrorMsg
    /\ Len(conversation_history) > 0
    /\ conversation_history[Len(conversation_history)] = req[s].entry

\* C10: the entry of a finished request carries the candidate query when one
\* was produced (also when it was then rejected or failed in execution), and
\* an empty query exactly when the request failed before a candidate existed
C10_QueryEmptyOnlyBeforeCandidate ==
  \A s \in Sessions :
    Finished(s) =>
      req[s].entry.sql_query = (IF req[s].has_query THEN req[s].query ELSE "")

\* C11: no stage failure leaves execute_query_with_context as a raised
\* exception: a request that failed in generation, validation or execution
\* ends by returning a result value to its caller
C11_FailuresReturnedAsValues ==
  \A s \in Sessions :
    req[s].failed_at \in {"generation", "validation", "execution"} =>
      req[s].pc # "raised"

\* the rendered text shows exactly the last min(ContextWindow, m) entries of
\* the history h, oldest first, numbered from 1
RendersRecent(text, h) ==
  LET m == Len(h)
      k == IF m < ContextWindow THEN m ELSE ContextWindow
      lines == SplitLines(text)
  IN  IF m = 0
      THEN \A j \in 1..Len(lines) : ~StartsWith(lines[j], "Exchange ")
      ELSE /\ Len(lines) = 3 * k
           /\ \A i \in 1..k :
                LET e == h[m - k + i]
                IN  /\ lines[3 * i - 2] = "Exchange " \o NatToStr(i) \o ":"
                    /\ lines[3 * i - 1] = "  User: " \o e.question
                    /\ StartsWith(lines[3 * i], "  Assistant: ")
                    /\ StartsWith("  Assistant: " \o e.response,
                                  SubSeq(lines[3 * i], 1, Len(lines[3 * i]) - 3))

\* C12: every rendering of the conversation context shows only the most
\* recent min(3, m) entries of the m recorded ones, oldest first, numbered
\* from 1
C12_ContextShowsLastThree ==
  [][context' # context => RendersRecent(context'.text, conversation_history)]_vars

\* C12 witness: a history of K+3 = 6 entries whose fourth entry differs from
\* its third was rendered into nine lines, one of them truncated
C12_Witness ==
  /\ Len(conversation_history) = ContextWindow + 3
  /\ conversation_history[3].question # conversation_history[4].question
  /\ Len(conversation_history[6].response) > ResponseLimit
  /\ context.done
  /\ Len(SplitLines(context.text)) = 3 * ContextWindow

\* C13: a rendering of an empty history, after a clear or on a fresh agent,
\* returns the text 'No previous conversation.'
C13_EmptyHistoryRendersCanonicalText ==
  [][(context' # context /\ Len(conversation_history) = 0) =>
        context' = [done |-> TRUE, text |-> "No previous conversation."]]_vars

\* C13 witness: a history left by earlier requests was cleared and then
\* rendered
C13_Witness ==
  /\ calls_started > 0
  /\ conversation_history = <<>>
  /\ context = [done |-> TRUE, text |-> "No previous conversation."]

\* C14: a step that removes entries from conversation_history or messages
\* from the window memory is a clear, and leaves both layers empty
C14_ClearEmptiesBothLayers ==
  [][(\/ Len(conversation_history') < Len(conversation_history)
      \/ Len(chat_memory') < Len(chat_memory)) =>
       (conversation_history' = <<>> /\ chat_memory' = <<>>)]_vars

\* C14 witness: a request returned, so that both layers held something, and
\* both layers are empty afterwards
C14_Witness ==
  /\ \E s \in Sessions : req[s].pc = "returned"
  /\ conversation_history = <<>>
  /\ chat_memory = <<>>

\* C15: a step that changes conversation_history is either a clear, which
\* touches no request, or the recording step of one request, which appends
\* one entry and leaves the previous history as a prefix; every other step
\* (generation, validation, execution, get_default_query_results, memory
\* updates) leaves the history as it is
C15_HistoryAppendOnly ==
  [][conversation_history' # conversation_history =>
       \/ /\ conversation_history' = <<>>
          /\ UNCHANGED << req, engine, backend_last >>
       \/ /\ \E s \in Sessions :
               /\ req[s].pc \in {"record_ok", "record_error"}
               /\ req'[s].pc \in {"memory_user", "raised"}
               /\ \A o \in Sessions \ {s} : req'[o] = req[o]
          /\ UNCHANGED << engine, backend_last >>
          /\ Len(conversation_history') = Len(conversation_history) + 1
          /\ SubSeq(conversation_history', 1, Len(conversation_history))
               = conversation_history]_vars

\* C15 witness: two requests have appended different entries, the first of
\* them still in front
C15_Witness ==
  /\ Len(conversation_history) = 2
  /\ conversation_history[1] # conversation_history[2]
  /\ recorded[1] # recorded[2]
  /\ backend_last.path = "default"

\* C19: a call is one forward pass: at most one call of the model, a
\* candidate only after the model answered, at most one call of
\* DatabaseManager.execute_query and only for a candidate the validator
\* accepts, an entry only after execution returned or a stage failed, and a
\* finished call has its entry recorded
C19_SingleForwardPass ==
  \A s \in Sessions :
    /\ req[s].llm_calls <= 1
    /\ req[s].exec_calls <= 1
    /\ req[s].has_query => req[s].llm_calls = 1
    /\ req[s].exec_calls = 1 => (req[s].has_query /\ ~Verdict(req[s].query).raised)
    /\ req[s].appended >= 1 => (req[s].exec_calls = 1 \/ req[s].failed_at # "none")
    /\ req[s].pc = "returned" => (req[s].llm_calls = 1 /\ req[s].exec_calls = 1)
    /\ Finished(s) => req[s].appended >= 1

\* C19 witness: a call went through generation, validation, execution and
\* recording once each and returned
C19_Witness ==
  \E s \in Sessions :
    /\ req[s].pc = "returned"
    /\ req[s].llm_calls = 1
    /\ req[s].exec_calls = 1
    /\ req[s].appended = 1

\* C20: with requests of several sessions on one agent, the history holds
\* the entries in the order of the recording steps, none lost, and every
\* finished request has contributed exactly one entry
C20_AppendsSerialized ==
  /\ Len(conversation_history) = Len(recorded)
  /\ \A i \in 1..Len(recorded) :
       conversation_history[i].question = QuestionOf[recorded[i]]
  /\ \A s \in Sessions : Finished(s) => req[s].appended = 1

\* one of database, user, password is missing or empty in the configuration
SomeFieldEmpty == \E f \in RequiredFields : db_config[f] \in {"None", ""}

\* the manager is unconfigured, has no engine, and neither a connection nor a
\* statement has gone to the backend
StaysUnconfigured ==
  /\ ~is_configured
  /\ engine = "None"
  /\ ~mgr_out.connected
  /\ backend_last = NoStatement

C17_IntrospectionFailureGivesEmptySnapshot ==
  (/\ mgr_out.op \in {"get_schema_info", "get_schema_string"}
   /\ mgr_out.failed_at \in {"engine", "tables", "columns"}) =>
     /\ ~mgr_out.raised
     /\ mgr_out.info = <<>>
     /\ mgr_out.op = "get_schema_string" =>
          StartsWith(mgr_out.text, "No schema information available")

\* C17 witness: get_schema_string whose introspection had read usertable and
\* failed at the columns of prompt_history
C17_Witness ==
  /\ mgr_out.op = "get_schema_string"
  /\ mgr_out.failed_at = "columns"
  /\ mgr_out.msg = "get_columns failed for prompt_history"
  /\ mgr_out.text = NoSchemaMsg

SqlKeywords == {"SELECT", "WITH", "FROM", "WHERE", "GROUP", "ORDER", "HAVING", "JOIN"}

\* a non-empty line that begins with or contains one of them, in any case
MentionsSqlKeyword(line) ==
  /\ Strip(line) # ""
  /\ \E k \in SqlKeywords : Contains(Upper(line), k)

\* the lines of the answer as the model wrote it, each trimmed
TrimmedLines(response) ==
  LET lines == SplitLines(response)
  IN  [k \in 1..Len(lines) |-> Strip(lines[k])]

\* C21: every non-empty line of the answer that begins with or contains one
\* of SELECT, WITH, FROM, WHERE, GROUP, ORDER, HAVING, JOIN is part of the
\* candidate, also a line that has GROUP, ORDER, HAVING or WITH past its start
C21_KeywordLinesKept ==
  (candidate.done /\ \E k \in 1..Len(TrimmedLines(stmt)) :
                        MentionsSqlKeyword(TrimmedLines(stmt)[k])) =>
    candidate.text = JoinSpace(SelectSeq(TrimmedLines(stmt), MentionsSqlKeyword))

LongestQuestion ==
  LET lens == {Len(EntrySamples[k].question) : k \in 1..Len(EntrySamples)}
  IN  CHOOSE n \in lens : \A o \in lens : o <= n

\* the longest line that shows an outcome summary
AssistantLineBound == Len("  Assistant: ") + ResponseLimit + Len("...")

\* the longest rendering of ContextWindow exchanges: three lines each, with
\* the line breaks between them
ContextBound ==
  ContextWindow * (Len("Exchange 1:") + 1 + Len("  User: ") + LongestQuestion + 1
                     + AssistantLineBound)
    + (ContextWindow - 1)

\* C23: the rendered context is no longer than a constant that depends on
\* the window, the truncation limit and the longest question only; every
\* line that shows an outcome summary holds at most its first 200 characters
\* and ends with the ellipsis
C23_ContextLengthBounded ==
  context.done =>
    /\ Len(context.text) <= ContextBound
    /\ LET lines == SplitLines(context.text)
       IN  \A j \in 1..Len(lines) :
             StartsWith(lines[j], "  Assistant: ") =>
               /\ Len(lines[j]) <= AssistantLineBound
               /\ EndsWith(lines[j], "...")

\* C23 witness: a history of MaxHistory entries whose last three summaries
\* are all longer than the limit was rendered, each of them cut
C23_Witness ==
  /\ context.done
  /\ Len(conversation_history) = MaxHistory
  /\ \A i \in (MaxHistory - ContextWindow + 1)..MaxHistory :
       Len(conversation_history[i].response) > ResponseLimit
  /\ Len(context.text) > ContextWindow * ResponseLimit
  /\ Len(context.text) <= ContextBound

\* C24: the statement a request passes to DatabaseManager.execute_query, and
\* the one the backend receives, is character for character the candidate
\* the validator accepted in that request
C24_ExecutedIsValidatedCandidate ==
  \A s \in Sessions :
    /\ (req[s].pc = "execute" \/ req[s].exec_calls > 0) =>
         /\ req[s].has_query
         /\ req[s].sql_query = req[s].query
         /\ ~Verdict(req[s].query).raised
    /\ req[s].sent # "" => req[s].sent = req[s].query

\* C24 witness: a candidate in mixed case reached the backend as the
\* validator saw it, not as the upper-cased copy
C24_Witness ==
  \E s \in Sessions :
    /\ req[s].pc = "returned"
    /\ req[s].query = "SELECT * FROM usertable LIMIT 5;"
    /\ req[s].sent = "SELECT * FROM usertable LIMIT 5;"
    /\ req[s].sent # Upper(req[s].sent)

\* C25: a statement with forbidden keywords as whole words is rejected with
\* the keyword reason, whether or not it begins with SELECT or WITH, naming
\* the keyword that comes first in the fixed order of the list, not the one
\* that comes first in the text; EXECUTE without the word EXEC names EXECUTE
C25_KeywordReasonNamesEarliestListed ==
  ProbeFacts[stmt].word =>
    /\ agent_verdict # Pending =>
         agent_verdict = Err(KeywordReason \o ProbeFacts[stmt].named)
    /\ (db_outcome # Pending /\ is_configured) =>
         db_outcome = Err(KeywordReason \o ProbeFacts[stmt].named
                            \o ". Only read-only operations allowed.")

\* C25 witness: 'DROP Insert' breaks both rules and has DROP first in the
\* text; both validators named INSERT
C25_Witness ==
  /\ stmt = "DROP Insert"
  /\ agent_verdict = Err("Query contains forbidden keyword: INSERT")
  /\ db_outcome = Err("Query contains forbidden keyword: INSERT. Only read-only operations allowed.")

SuccessShape(e) ==
  /\ e.sql_query # ""
  /\ ~Verdict(e.sql_query).raised
  /\ e.response = "Query executed successfully, returned "
                    \o NatToStr(e.result_count) \o " rows"

\* the shape of the entry of a failed request
FailureShape(e) ==
  /\ e.sql_query = ""
  /\ e.result_count = 0
  /\ StartsWith(e.response, "Failed to execute query: ")

\* C27: every entry of conversation_history is a success entry (a statement
\* the validator accepts, the one that was executed, and a summary that
\* states result_count) or a failure entry (empty query, result_count 0, a
\* summary that starts with the failure prefix)
C27_EntriesHaveOneOfTwoShapes ==
  /\ \A i \in 1..Len(conversation_history) :
       SuccessShape(conversation_history[i]) \/ FailureShape(conversation_history[i])
  /\ \A s \in Sessions :
       req[s].pc \in {"memory_user", "memory_ai", "returned"} =>
         /\ SuccessShape(req[s].entry)
         /\ req[s].entry.sql_query = req[s].sent
         /\ req[s].entry.result_count = Len(req[s].backend_table)
  /\ \A s \in Sessions :
       req[s].pc = "raised" => FailureShape(req[s].entry)

\* C27 witness: the history holds a success entry with one row and a
\* failure entry
C27_Witness ==
  /\ Len(conversation_history) = 2
  /\ conversation_history[1] =
       [ question |-> "how many users", sql_query |-> MockAnswer,
         response |-> "Query executed successfully, returned 1 rows",
         result_count |-> 1 ]
  /\ conversation_history[2] =
       [ question |-> "delete everyone", sql_query |-> "",
         response |-> "Failed to execute query: Query contains forbidden keyword: DELETE",
         result_count |-> 0 ]

\* no request is between its entry and its return
Quiescent == \A s \in Sessions : req[s].pc \in {"idle", "returned", "raised"}

\* the success entries of the history, in order
SuccessEntries == SelectSeq(conversation_history, LAMBDA e : e.sql_query # "")

\* C28: between requests the window memory holds exactly one pair of
\* messages for each success entry recorded since the last clear, the
\* question followed by the executed query, and nothing of failed requests
C28_MemoryPairsMatchSuccessEntries ==
  Quiescent =>
    /\ Len(chat_memory) = 2 * Len(SuccessEntries)
    /\ \A j \in 1..Len(SuccessEntries) :
         /\ chat_memory[2 * j - 1] =
              [type |-> "human", content |-> SuccessEntries[j].question]
         /\ chat_memory[2 * j] =
              [type |-> "ai", content |-> "Executed query: " \o SuccessEntries[j].sql_query]

\* C30: when a request has returned its table, the last entry of
\* conversation_history, which the chat interface reads for the SQL text of
\* the assistant message, holds the statement of that request, whatever
\* other requests on the shared agent have done in between
C30_LastEntryIsOwnStatement ==
  \A s \in Sessions :
    (req[s].pc = "returned" /\ Len(conversation_history) > 0) =>
      conversation_history[Len(conversation_history)].sql_query = req[s].sql_query

\* C29: at most one SQLAgent is constructed, also with concurrent callers;
\* the global is set exactly when one was constructed and keeps referring to
\* the first; every caller that got an agent got that one, whatever llm it
\* passed
C29_AtMostOneAgent ==
  /\ Len(agents.built) <= 1
  /\ (sql_agent = "None") <=> (agents.built = <<>>)
  /\ agents.current = (IF agents.built = <<>> THEN 0 ELSE 1)
  /\ \A c \in Sessions : getter[c].pc = "returned" => getter[c].got = 1

=============================================================================
